---- MODULE Spec2Model ----
(***************************************************************************)
(* Model of src/rotator.py: the ModemRotator object (lock, last_rotation,  *)
(* rotation_count), its rotate_connection() cycle and its lock-free        *)
(* get_connection_status(), called by the HTTP server thread of main()     *)
(* (a plain HTTPServer: one request at a time) and by threads that use the *)
(* ModemRotator object directly.  External tools (lsusb, rfkill, ip, ping,  *)
(* sysfs writes) are inputs drawn with \E.  Time is a global clock that    *)
(* the time.sleep() calls advance.  Spec is the object under two           *)
(* concurrent caller threads, HttpSpec the program as main() runs it,      *)
(* FairSpec is Spec with calls in progress going on, UsbSpec is            *)
(* find_usb_modem_path(), disconnect_modem() and connect_modem() called    *)
(* on their own over the contents of sysfs and the outcomes of the tools.  *)
(***************************************************************************)
EXTENDS Integers, Sequences, FiniteSets, TLC

\* ------------------------------------------------------------- bounds
MaxCalls == 2          \* calls the threads make on the ModemRotator object
MaxRequests == 2       \* HTTP requests the clients send

\* ------------------------------------------------------------- constants
None == -1             \* Python None (last_rotation before the first cycle)
SRV == 0               \* the thread running server.serve_forever()
PollInterval == 1      \* time.sleep(1) of the verification loop
RfkillSettle == 8      \* time.sleep(8) after rfkill unblock
UsbSettle == 10        \* time.sleep(10) after USB re-authorization

Callers == {1, 2}      \* two threads that call the ModemRotator object
Threads == {SRV} \cup Callers

\* CONFIG as the module sets it, and as config.json may override it.
DefaultConfig ==
    [disconnect_delay |-> 1, reconnect_timeout |-> 8, modem_reset_delay |-> 1,
     aggressive_rotation |-> FALSE]
ConfigChoices ==
    {DefaultConfig,
     [DefaultConfig EXCEPT !.aggressive_rotation = TRUE, !.modem_reset_delay = 2,
                           !.reconnect_timeout = 2],
     [DefaultConfig EXCEPT !.disconnect_delay = -1]}

Methods == {"GET", "POST"}
Paths == {"/", "/status", "/health", "/rotate", "/other"}

Max(a, b) == IF a >= b THEN a ELSE b

VARIABLES
    CONFIG,          \* the configuration snapshot
    lock,            \* self.lock: None or the thread that holds it
    last_rotation,   \* self.last_rotation
    rotation_count,  \* self.rotation_count
    now,             \* the system clock
    th,              \* per thread: position and locals
    requests,        \* HTTP requests accepted by the socket, not yet handled
    nreq,            \* how many requests the clients have sent
    ncalls,          \* how many calls the caller threads have made
    response,        \* the last HTTP response written
    returned,        \* history: total_rotations of the successful calls, in order
    sysfs,           \* /sys/bus/usb/devices as find_usb_modem_path() finds it
    call             \* a modem function called on its own: arguments and result

\* What a rotation cycle and the HTTP server never touch.
usb == <<sysfs, call>>

vars == <<CONFIG, lock, last_rotation, rotation_count, now, th,
          requests, nreq, ncalls, response, returned, sysfs, call>>

NoStatus == [none |-> TRUE]
NoResult == [none |-> TRUE]
NoResponse == [code |-> 0, body |-> "none"]
NoSysfs == [none |-> TRUE]
NoCall == [op |-> "none"]

\* A thread's locals outside any call.
IdleThread ==
    [pc |-> "idle", ret |-> "",
     \* get_connection_status(): the dict under construction, the value returned
     part |-> NoStatus, rv |-> NoStatus,
     \* rotate_connection(): its locals, its return value, the pending sleep
     initial_status |-> NoStatus, status |-> NoStatus, start_time |-> 0,
     result |-> NoResult, wake |-> 0,
     \* history of the current cycle: when it started and returned, the fields
     \* at its start, what disconnect_modem() and connect_modem() returned and
     \* how often they ran, the polls, how the loop ended, the last ping
     t0 |-> 0, tret |-> 0, c0 |-> 0, ts0 |-> None,
     \* the clock when disconnect_modem() returned and connect_modem() began
     tdis |-> 0, tcon |-> 0,
     \* how often they ran each actuation command
     dact |-> [usb |-> 0, rfkill |-> 0], cact |-> [usb |-> 0, rfkill |-> 0],
     dres |-> "", cres |-> "", ndis |-> 0, ncon |-> 0, dis |-> "", con |-> "",
     polls |-> 0, iter_at |-> 0, seen |-> FALSE, expired |-> FALSE,
     reached |-> FALSE]

Init ==
    /\ CONFIG \in ConfigChoices
    /\ lock = None
    /\ last_rotation = None
    /\ rotation_count = 0
    /\ now = 0
    /\ th = [t \in Threads |-> IdleThread]
    /\ requests = <<>>
    /\ nreq = 0
    /\ ncalls = 0
    /\ response = NoResponse
    /\ returned = <<>>
    /\ sysfs = NoSysfs
    /\ call = NoCall

\* ------------------------------------------------- get_connection_status
ErrorDict == [error |-> "exception"]

\* The snapshot the three probes yield (before the rotation fields are read):
\* link is the outcome of `ip link show`, addr of `ip addr show`, ping of ping.
\* An exception of `ip` reaches the outer handler, one of ping is swallowed.
\* Of the dict, the fields some operation reads are kept: "interface",
\* "nm_device", "interface_up" and "ip_address" are written and never read.
Probe(link, addr, ping) ==
    IF link = "raise" \/ (link = "up" /\ addr = "raise")
    THEN ErrorDict
    ELSE [internet_connected |-> (ping = "ok")]

\* status.get("internet_connected") as a truth value.
InternetConnected(status) ==
    "internet_connected" \in DOMAIN status /\ status.internet_connected

IsError(status) == "error" \in DOMAIN status

\* Lines 186-223: run the probes, then read self.last_rotation.
GcsProbe(t) ==
    /\ th[t].pc = "gcs"
    /\ \E link \in {"raise", "down", "up"}, addr \in {"raise", "none", "inet"},
          ping \in {"ok", "fail", "raise"} :
         \* a probe that is not run has no outcome of its own: `ip addr` runs
         \* when the interface is up, ping when neither `ip` call raised
         /\ link # "up" => addr = "none"
         /\ (link = "raise" \/ addr = "raise") => ping = "fail"
         /\ LET p == Probe(link, addr, ping) IN
            IF IsError(p)
            THEN th' = [th EXCEPT ![t].rv = p, ![t].pc = th[t].ret,
                                  ![t].reached = (ping = "ok")]
            ELSE th' = [th EXCEPT ![t].part = p @@ [last_rotation |-> last_rotation],
                                  ![t].pc = "gcs2",
                                  ![t].reached = (ping = "ok")]
    /\ UNCHANGED <<usb, CONFIG, lock, last_rotation, rotation_count, now,
                   requests, nreq, ncalls, response, returned>>

\* Line 224: read self.rotation_count and return the dict.
GcsReturn(t) ==
    /\ th[t].pc = "gcs2"
    /\ th' = [th EXCEPT ![t].rv = th[t].part @@ [rotation_count |-> rotation_count],
                        ![t].part = NoStatus, ![t].pc = th[t].ret]
    /\ UNCHANGED <<usb, CONFIG, lock, last_rotation, rotation_count, now,
                   requests, nreq, ncalls, response, returned>>

\* ---------------------------------------------------- find_usb_modem_path
NoPath == "None"       \* the None that find_usb_modem_path() returns
Raised == "raised"     \* an exception on its way out, in place of a value

\* Line 62: the device names Method 1 looks at, in its order.
likely_devices == <<"1-1.2", "1-1", "2-1">>

\* The device directories that exist, and the order find and ls print them in.
DeviceNames == {"1-1.2", "1-1", "1-3", "3-1"}
Listing == <<"1-1", "1-1.2", "1-3", "3-1">>

\* Line 144: device_name.startswith('1-').
StartsWith1(d) == d \in {"1-1.2", "1-1", "1-3"}

\* Line 123: os.path.dirname() of a device directory.
ParentPath(d) == IF d = "1-1.2" THEN "1-1" ELSE IF d = "3-1" THEN "usb3" ELSE "usb1"

\* What a device directory holds, seen from the vendor:product looked for:
\*   "unreadable"  idVendor or idProduct cannot be read (open() raises)
\*   "other"       another vendor or another product
\*   "modem"       the IDs match and the directory has an `authorized` file
\*   "noauth"      the IDs match, no `authorized` here nor in the parent
\*   "parentauth"  the IDs match, no `authorized` here, one in the parent
Kinds == {"unreadable", "other", "modem", "noauth", "parentauth"}

\* What a listing tool (find, ls) does: it cannot be run or times out, it
\* prints nothing, it prints every device.
ListOutcomes == {"raise", "empty", "all"}
Listed(outcome) == IF outcome = "all" THEN Listing ELSE <<>>

\* lsusb's ID field: with and without the colon line 57 splits at.
VendorProducts == {"1e0e:9001", "1e0e9001"}

SysfsChoices == [dev : [DeviceNames -> Kinds], find : ListOutcomes, ls : ListOutcomes]

\* The index of the first element of seq that is in hits, 0 when there is none.
First(seq, hits) ==
    LET I == {i \in DOMAIN seq : seq[i] \in hits} IN
    IF I = {} THEN 0 ELSE CHOOSE i \in I : \A j \in I : i <= j

\* Lines 60-88: the likely devices; a device that is absent, unreadable or
\* without `authorized` is passed over.
Method1(fs) ==
    LET i == First(likely_devices, {d \in DeviceNames : fs.dev[d] = "modem"}) IN
    IF i = 0 THEN NoPath ELSE likely_devices[i]

\* Lines 90-129: the idVendor files `find` prints; the first matching device
\* with `authorized` in its own or in its parent directory ends the search.
\* The find call is outside the inner try: its exception leaves the method.
Method2(fs) ==
    IF fs.find = "raise" THEN Raised
    ELSE LET i == First(Listed(fs.find),
                        {d \in DeviceNames : fs.dev[d] \in {"modem", "parentauth"}}) IN
         IF i = 0 THEN NoPath
         ELSE IF fs.dev[Listed(fs.find)[i]] = "modem" THEN Listed(fs.find)[i]
         ELSE ParentPath(Listed(fs.find)[i])

\* Lines 131-172: the devices `ls` prints whose name starts with "1-"; an
\* exception of ls is swallowed (line 170).
Method3(fs) ==
    IF fs.ls = "raise" THEN NoPath
    ELSE LET i == First(Listed(fs.ls),
                        {d \in DeviceNames : StartsWith1(d) /\ fs.dev[d] = "modem"}) IN
         IF i = 0 THEN NoPath ELSE Listed(fs.ls)[i]

\* Lines 57-174, the body of the outer try.
FindAttempt(vendor_product, fs) ==
    IF vendor_product \notin {"1e0e:9001"} THEN Raised    \* split(':') unpacks two
    ELSE IF Method1(fs) # NoPath THEN Method1(fs)
    ELSE IF Method2(fs) # NoPath THEN Method2(fs)
    ELSE Method3(fs)

\* Mutant: the outer handler is missing.
ExceptPathMissing(p) == p

\* Lines 175-177: `except Exception` returns None.
ExceptPath(p) == IF p = Raised THEN NoPath ELSE p

find_usb_modem_path(vendor_product, fs) == ExceptPath(FindAttempt(vendor_product, fs))

\* ------------------------------------------- disconnect_modem, connect_modem
ToolOutcomes == {"zero", "nonzero", "raise"}   \* exit 0, exit # 0, timeout or missing
LsusbOutcomes == {"raise", "nomodem", "found"} \* lsusb: failed to run, no modem line, an ID

\* The commands of the two actuation mechanisms.
UsbWrites == {"echo 0 > authorized", "echo 1 > authorized"}
Rfkills == {"rfkill block", "rfkill unblock"}

\* How often a call that invoked the tools `tried` ran each mechanism.
Uses(tried) ==
    [usb |-> Cardinality({i \in DOMAIN tried : tried[i] \in UsbWrites}),
     rfkill |-> Cardinality({i \in DOMAIN tried : tried[i] \in Rfkills})]

\* Mutant: the handlers of disconnect_modem() and connect_modem() are missing.
ExceptMissing(r) == r

\* Lines 299-305, 381-387: `except Exception` returns False.
Except(r) == [r EXCEPT !.ok = r.ok /\ ~r.raised, !.raised = FALSE]

\* Mutant: the chain of the specification, where a tool that cannot be run
\* is one that failed and rfkill is tried after it.
DisconnectAttemptWithFallback(lsusb, path, rc) ==
    [ok |-> (rc = "zero"), mech |-> "rfkill",
     tried |-> IF lsusb = "found" /\ path
               THEN <<"lsusb", "find_usb_modem_path", "echo 0 > authorized", "rfkill block">>
               ELSE <<"lsusb", "rfkill block">>,
     raised |-> (rc = "raise")]

\* Lines 236-297, the body of the try.  lsusb is the outcome of the lsusb call
\* and of parsing its output, path whether find_usb_modem_path() returned a
\* path, rc the outcome of the one actuation command that is then run.
\* `tried` lists the tools invoked, `raised` tells that the body was left by
\* an exception.
DisconnectAttempt(lsusb, path, rc) ==
    IF lsusb = "raise"
    THEN [ok |-> FALSE, mech |-> "none", tried |-> <<"lsusb">>, raised |-> TRUE]
    ELSE IF lsusb = "nomodem"
    THEN [ok |-> (rc = "zero"), mech |-> "rfkill", tried |-> <<"lsusb", "rfkill block">>,
          raised |-> (rc = "raise")]
    ELSE IF ~path
    THEN [ok |-> (rc = "zero"), mech |-> "rfkill",
          tried |-> <<"lsusb", "find_usb_modem_path", "rfkill block">>,
          raised |-> (rc = "raise")]
    ELSE [ok |-> (rc = "zero"), mech |-> "usb",
          tried |-> <<"lsusb", "find_usb_modem_path", "echo 0 > authorized">>,
          raised |-> (rc = "raise")]

\* Lines 230-305.
DisconnectModem(lsusb, path, rc) == Except(DisconnectAttempt(lsusb, path, rc))

\* Mutant: a failed rfkill unblock is run a second time.
ConnectAttemptRetrying(lsusb, path, rc) ==
    [ok |-> (rc = "zero"), mech |-> "rfkill", settle |-> RfkillSettle,
     tried |-> IF rc = "zero" THEN <<"lsusb", "rfkill unblock">>
               ELSE <<"lsusb", "rfkill unblock", "rfkill unblock">>,
     raised |-> FALSE]

\* Lines 313-379, the body of the try.  `settle` is the time.sleep() that
\* follows a success.
ConnectAttempt(lsusb, path, rc) ==
    IF lsusb = "raise"
    THEN [ok |-> FALSE, mech |-> "none", settle |-> 0, tried |-> <<"lsusb">>,
          raised |-> TRUE]
    ELSE IF lsusb = "nomodem"
    THEN [ok |-> (rc = "zero"), mech |-> "rfkill", settle |-> RfkillSettle,
          tried |-> <<"lsusb", "rfkill unblock">>, raised |-> (rc = "raise")]
    ELSE IF ~path
    THEN [ok |-> (rc = "zero"), mech |-> "rfkill", settle |-> RfkillSettle,
          tried |-> <<"lsusb", "find_usb_modem_path", "rfkill unblock">>,
          raised |-> (rc = "raise")]
    ELSE [ok |-> (rc = "zero"), mech |-> "usb", settle |-> UsbSettle,
          tried |-> <<"lsusb", "find_usb_modem_path", "echo 1 > authorized">>,
          raised |-> (rc = "raise")]

\* Lines 307-387.
ConnectModem(lsusb, path, rc) == Except(ConnectAttempt(lsusb, path, rc))

\* ------------------------------------------------------ rotate_connection
\* Mutant: the lock is entered without waiting for its holder.
LockFreeAlways == TRUE

\* `with self.lock:` can be entered when nobody holds the lock.
LockFree == lock = None

\* Mutant: the delay is disconnect_delay, aggressive or not.
SettleDelayNotAggressive == CONFIG.disconnect_delay

\* Lines 407-413: the delay between disconnect and connect.
SettleDelay ==
    IF CONFIG.aggressive_rotation THEN CONFIG.modem_reset_delay
    ELSE CONFIG.disconnect_delay

\* The clock when a time.sleep() that was to end at `wake` returns.
SleepUntil(clock, wake) == Max(clock, wake)

\* Mutant: the loop condition lets one more iteration in (<= for <).
PollContinueInclusive(clock, start) == clock - start <= CONFIG.reconnect_timeout

\* Line 426: the loop condition of the verification poll.
PollContinue(clock, start) == clock - start < CONFIG.reconnect_timeout

\* Mutant: the `not` of line 399 is lost.
DisconnectFailedInverted(d) == d.ok

\* Line 399: `if not self.disconnect_modem():`.
DisconnectFailed(d) == ~d.ok

\* Mutant: the result of connect_modem() is ignored.
ConnectFailedNever(c) == FALSE

\* Line 416: `if not self.connect_modem():`.
ConnectFailed(c) == ~c.ok

\* Mutant: a loop that ends by timeout fails the cycle.
ExitPcTimeoutFails(seen) == IF seen THEN "upd1" ELSE "r_connfail"

\* Lines 426-432: where the cycle goes on when the loop has ended, by a poll
\* that saw the internet (seen) or by the timeout: to the tracking update.
ExitPc(seen) == "upd1"

\* Mutant: the loop's last status is returned as final_status.
FinalStatusFromLoop(status, fresh) == status

\* Line 436: final_status is a new snapshot, not the loop's last `status`.
FinalStatus(status, fresh) == fresh

\* The dict of a failed cycle.
Failure(error, status) == [success |-> FALSE, error |-> error, status |-> status]

\* Mutant: the timestamp is never stored.
TimestampUnset(clock) == None

\* Mutant: the timestamp is one taken when the process started.
TimestampStale(clock) == 0

\* Line 433: datetime.now() (isoformat() of it), read off the clock.
Timestamp(clock) == clock

\* Mutant: a cycle counts twice.
NextCountTwice(count) == count + 2

\* Mutant: the increment is lost.
NextCountLost(count) == count

\* Line 434: self.rotation_count += 1.
NextCount(count) == count + 1

\* A thread in a rotation cycle: between the initial snapshot and the return.
CyclePcs ==
    {"ret", "r_init", "settle", "connwait", "pollsleep", "r_poll", "upd1", "upd2",
     "r_final", "r_connfail", "r_except"}
InCycle(t) ==
    \/ th[t].pc \in CyclePcs
    \/ th[t].pc \in {"gcs", "gcs2"} /\ th[t].ret \in CyclePcs

\* `return {...}` inside `with self.lock:`: the value is built while the lock
\* is still held; leaving the block releases it (Leave).
Finish(t, me, res) ==
    /\ th' = [th EXCEPT ![t] = [me EXCEPT !.pc = "ret", !.result = res, !.tret = now]]
    /\ returned' = IF res.success
                   THEN Append(returned, [time |-> res.rotation_time,
                                          total |-> res.total_rotations])
                   ELSE returned

\* What the HTTP client is sent: the status line and what the JSON body is.
Response(code, body) == [code |-> code, body |-> body]

\* Mutant: a cycle that failed returns with the lock still held.
LockAfterKeptOnFailure(t, res) == IF res.success THEN None ELSE t

\* Line 391: leaving `with self.lock:` releases the lock, whatever is returned.
LockAfter(t, res) == None

\* Mutant: a failed cycle is answered with an HTTP error status.
RotateStatusCodeByOutcome(res) == IF res.success THEN 200 ELSE 500

\* Line 502: send_response(200) is called before the cycle is run, so the
\* status line does not depend on the result.
RotateStatusCode(res) == 200

\* Lines 391, 505-506: the `with` block is left, the lock released; the caller
\* has the result (the server writes it as the response body).
Leave(t) ==
    /\ th[t].pc = "ret"
    /\ lock' = LockAfter(t, th[t].result)
    /\ th' = [th EXCEPT ![t] = IdleThread]
    /\ response' = IF t = SRV
                   THEN Response(RotateStatusCode(th[t].result),
                                 IF th[t].result.success THEN "rotated"
                                 ELSE "rotation failed")
                   ELSE response
    /\ UNCHANGED <<usb, CONFIG, last_rotation, rotation_count, now,
                   requests, nreq, ncalls, returned>>

\* Lines 391-396: enter the lock, start the initial snapshot.
Acquire(t) ==
    /\ th[t].pc = "acquire"
    /\ LockFree
    /\ lock' = t
    /\ th' = [th EXCEPT ![t].pc = "gcs", ![t].ret = "r_init", ![t].t0 = now,
                        ![t].c0 = rotation_count, ![t].ts0 = last_rotation]
    /\ UNCHANGED <<usb, CONFIG, last_rotation, rotation_count, now,
                   requests, nreq, ncalls, response, returned>>

\* Lines 396-413: keep the initial snapshot, disconnect, start the settle sleep.
Disconnect(t) ==
    /\ th[t].pc = "r_init"
    /\ \E lsusb \in LsusbOutcomes, path \in BOOLEAN, rc \in ToolOutcomes :
         LET d == DisconnectModem(lsusb, path, rc)
             me == [th[t] EXCEPT !.initial_status = th[t].rv, !.rv = NoStatus,
                                 !.ndis = @ + 1, !.tdis = now,
                                 !.dres = IF d.ok THEN "True" ELSE "False",
                                 !.dis = d.mech, !.dact = Uses(d.tried)]
         IN
         IF DisconnectFailed(d)
         THEN Finish(t, me, Failure("Failed to disconnect modem", me.initial_status))
         ELSE /\ th' = [th EXCEPT ![t] =
                          [me EXCEPT !.wake = now + SettleDelay,
                                     \* time.sleep() of a negative delay raises
                                     !.pc = IF SettleDelay < 0 THEN "gcs" ELSE "settle",
                                     !.ret = IF SettleDelay < 0 THEN "r_except"
                                             ELSE me.ret]]
              /\ UNCHANGED returned
    /\ UNCHANGED <<usb, CONFIG, lock, last_rotation, rotation_count, now,
                   requests, nreq, ncalls, response>>

\* Lines 413-421: the settle sleep ends, connect; on success connect_modem()
\* sleeps before it returns.
Connect(t) ==
    /\ th[t].pc = "settle"
    /\ now' = SleepUntil(now, th[t].wake)
    /\ \E lsusb \in LsusbOutcomes, path \in BOOLEAN, rc \in ToolOutcomes :
         LET c == ConnectModem(lsusb, path, rc)
             me == [th[t] EXCEPT !.ncon = @ + 1, !.tcon = now',
                                 !.cres = IF c.ok THEN "True" ELSE "False",
                                 !.con = c.mech, !.cact = Uses(c.tried)]
         IN
         IF ConnectFailed(c)
         THEN th' = [th EXCEPT ![t] = [me EXCEPT !.pc = "gcs", !.ret = "r_connfail"]]
         ELSE th' = [th EXCEPT ![t] = [me EXCEPT !.pc = "connwait",
                                                 !.wake = now' + c.settle]]
    /\ UNCHANGED <<usb, CONFIG, lock, last_rotation, rotation_count,
                   requests, nreq, ncalls, response, returned>>

\* Line 420-421: connect failed.
ReturnConnectFailed(t) ==
    /\ th[t].pc = "r_connfail"
    /\ Finish(t, th[t], Failure("Failed to reconnect modem", th[t].rv))
    /\ UNCHANGED <<usb, CONFIG, lock, last_rotation, rotation_count, now,
                   requests, nreq, ncalls, response>>

\* Lines 448-454: an exception inside the cycle.
ReturnException(t) ==
    /\ th[t].pc = "r_except"
    /\ Finish(t, th[t], Failure("exception", th[t].rv))
    /\ UNCHANGED <<usb, CONFIG, lock, last_rotation, rotation_count, now,
                   requests, nreq, ncalls, response>>

\* Lines 425-427: connect_modem() returns, start_time is taken, the loop
\* condition is tested for the first time.
StartPoll(t) ==
    /\ th[t].pc = "connwait"
    /\ now' = SleepUntil(now, th[t].wake)
    /\ IF PollContinue(now', now')
       THEN th' = [th EXCEPT ![t].start_time = now', ![t].wake = now' + PollInterval,
                             ![t].iter_at = now', ![t].pc = "pollsleep"]
       ELSE th' = [th EXCEPT ![t].start_time = now', ![t].expired = TRUE,
                             ![t].pc = ExitPc(FALSE)]
    /\ UNCHANGED <<usb, CONFIG, lock, last_rotation, rotation_count,
                   requests, nreq, ncalls, response, returned>>

\* Lines 427-428: time.sleep(1) ends, the status is polled.
PollWake(t) ==
    /\ th[t].pc = "pollsleep"
    /\ now' = SleepUntil(now, th[t].wake)
    /\ th' = [th EXCEPT ![t].pc = "gcs", ![t].ret = "r_poll"]
    /\ UNCHANGED <<usb, CONFIG, lock, last_rotation, rotation_count,
                   requests, nreq, ncalls, response, returned>>

\* Lines 428-430, 426: status is assigned; break when it shows the internet,
\* else test the loop condition again.
PollCheck(t) ==
    /\ th[t].pc = "r_poll"
    /\ LET me == [th[t] EXCEPT !.status = th[t].rv, !.rv = NoStatus,
                               !.polls = @ + 1] IN
       IF InternetConnected(me.status)
       THEN th' = [th EXCEPT ![t] = [me EXCEPT !.seen = TRUE, !.pc = ExitPc(TRUE)]]
       ELSE IF PollContinue(now, me.start_time)
       THEN th' = [th EXCEPT ![t] = [me EXCEPT !.wake = now + PollInterval,
                                               !.iter_at = now, !.pc = "pollsleep"]]
       ELSE th' = [th EXCEPT ![t] = [me EXCEPT !.expired = TRUE,
                                               !.pc = ExitPc(FALSE)]]
    /\ UNCHANGED <<usb, CONFIG, lock, last_rotation, rotation_count, now,
                   requests, nreq, ncalls, response, returned>>

\* Line 433.
UpdateTimestamp(t) ==
    /\ th[t].pc = "upd1"
    /\ last_rotation' = Timestamp(now)
    /\ th' = [th EXCEPT ![t].pc = "upd2"]
    /\ UNCHANGED <<usb, CONFIG, lock, rotation_count, now,
                   requests, nreq, ncalls, response, returned>>

\* Lines 434-436.
UpdateCount(t) ==
    /\ th[t].pc = "upd2"
    /\ rotation_count' = NextCount(rotation_count)
    /\ th' = [th EXCEPT ![t].pc = "gcs", ![t].ret = "r_final"]
    /\ UNCHANGED <<usb, CONFIG, lock, last_rotation, now,
                   requests, nreq, ncalls, response, returned>>

\* Lines 436-446.
ReturnSuccess(t) ==
    /\ th[t].pc = "r_final"
    /\ Finish(t, th[t],
              [success |-> TRUE, message |-> "Connection rotated successfully",
               initial_status |-> th[t].initial_status,
               final_status |-> FinalStatus(th[t].status, th[t].rv),
               rotation_time |-> last_rotation,
               total_rotations |-> rotation_count])
    /\ UNCHANGED <<usb, CONFIG, lock, last_rotation, rotation_count, now,
                   requests, nreq, ncalls, response>>

\* ------------------------------------------------- callers of the object
\* A thread that is in no call can make one.
MayCall(t) == t \in Callers /\ th[t].pc = "idle"

\* A thread calls rotator.rotate_connection().
CallRotate(t) ==
    /\ MayCall(t)
    /\ ncalls < MaxCalls
    /\ ncalls' = ncalls + 1
    /\ th' = [th EXCEPT ![t] = [IdleThread EXCEPT !.pc = "acquire"]]
    /\ UNCHANGED <<usb, CONFIG, lock, last_rotation, rotation_count, now,
                   requests, nreq, response, returned>>

\* A thread calls rotator.get_connection_status().
CallStatus(t) ==
    /\ MayCall(t)
    /\ ncalls < MaxCalls
    /\ ncalls' = ncalls + 1
    /\ th' = [th EXCEPT ![t] = [IdleThread EXCEPT !.pc = "gcs", !.ret = "api_status"]]
    /\ UNCHANGED <<usb, CONFIG, lock, last_rotation, rotation_count, now,
                   requests, nreq, response, returned>>

\* get_connection_status() returns to that thread.
StatusReturn(t) ==
    /\ th[t].pc = "api_status"
    /\ th' = [th EXCEPT ![t] = IdleThread]
    /\ UNCHANGED <<usb, CONFIG, lock, last_rotation, rotation_count, now,
                   requests, nreq, ncalls, response, returned>>

\* ------------------------------------------------------------ HTTP server
\* A client sends a request; the listening socket queues it.
Arrive ==
    /\ nreq < MaxRequests
    /\ \E m \in Methods, p \in Paths :
         requests' = Append(requests, [method |-> m, path |-> p])
    /\ nreq' = nreq + 1
    /\ UNCHANGED <<usb, CONFIG, lock, last_rotation, rotation_count, now, th,
                   ncalls, response, returned>>

\* serve_forever() takes the next request when the previous handler returned.
ServerReady == th[SRV].pc = "idle" /\ requests # <<>>

\* Lines 461-497.
do_GET ==
    /\ ServerReady
    /\ Head(requests).method = "GET"
    /\ requests' = Tail(requests)
    /\ LET path == Head(requests).path IN
       IF path = "/status"
       THEN /\ th' = [th EXCEPT ![SRV] = [IdleThread EXCEPT !.pc = "gcs",
                                                          !.ret = "http_status"]]
            /\ response' = response
       ELSE /\ th' = th
            /\ response' =
                 IF path = "/" THEN Response(200, "service info")
                 ELSE IF path = "/health" THEN Response(200, "healthy")
                 ELSE Response(404, "Endpoint not found")
    /\ UNCHANGED <<usb, CONFIG, lock, last_rotation, rotation_count, now, nreq,
                   ncalls, returned>>

\* Line 482-483: the status is written as the response body.
StatusRespond ==
    /\ th[SRV].pc = "http_status"
    /\ response' = Response(200, "status")
    /\ th' = [th EXCEPT ![SRV] = IdleThread]
    /\ UNCHANGED <<usb, CONFIG, lock, last_rotation, rotation_count, now,
                   requests, nreq, ncalls, returned>>

\* Mutant: every POST runs a rotation.
IsRotateAnyPath(path) == TRUE

\* Line 501: `if self.path == '/rotate':`.
IsRotate(path) == path = "/rotate"

\* Lines 499-512.
do_POST ==
    /\ ServerReady
    /\ Head(requests).method = "POST"
    /\ requests' = Tail(requests)
    /\ IF IsRotate(Head(requests).path)
       THEN /\ th' = [th EXCEPT ![SRV] = [IdleThread EXCEPT !.pc = "acquire"]]
            /\ response' = response
       ELSE /\ th' = th
            /\ response' = Response(404, "Endpoint not found")
    /\ UNCHANGED <<usb, CONFIG, lock, last_rotation, rotation_count, now, nreq,
                   ncalls, returned>>

\* ---------------------------------------------------------- specification
\* The steps of a rotate_connection() or get_connection_status() call in
\* progress in thread t.
Run(t) ==
    \/ GcsProbe(t)
    \/ GcsReturn(t)
    \/ Acquire(t)
    \/ Disconnect(t)
    \/ Connect(t)
    \/ ReturnConnectFailed(t)
    \/ ReturnException(t)
    \/ StartPoll(t)
    \/ PollWake(t)
    \/ PollCheck(t)
    \/ UpdateTimestamp(t)
    \/ UpdateCount(t)
    \/ ReturnSuccess(t)
    \/ Leave(t)

\* The ModemRotator object used by concurrent threads.
Next ==
    \/ \E t \in Callers : CallRotate(t) \/ CallStatus(t) \/ StatusReturn(t) \/ Run(t)

Spec == Init /\ [][Next]_vars

\* The program as main() runs it: every call comes from the one server thread.
HttpNext ==
    \/ Arrive
    \/ do_GET
    \/ do_POST
    \/ StatusRespond
    \/ Run(SRV)

HttpSpec == Init /\ [][HttpNext]_vars

\* A thread inside a call goes on: every subprocess has a timeout, every sleep
\* is finite, and a free lock is given to a thread that keeps waiting for it.
\* Nothing obliges a thread to make a call.
Fairness == \A t \in Callers : WF_vars(Run(t) \/ StatusReturn(t))

FairSpec == Spec /\ Fairness

\* ------------------------------------------ the modem functions on their own
\* The state of the ModemRotator object, its callers and the server.
rotator == <<CONFIG, lock, last_rotation, rotation_count, now, th,
             requests, nreq, ncalls, response, returned>>

\* A fresh ModemRotator on a machine whose sysfs is one of SysfsChoices.
UsbInit ==
    /\ CONFIG = DefaultConfig
    /\ lock = None
    /\ last_rotation = None
    /\ rotation_count = 0
    /\ now = 0
    /\ th = [t \in Threads |-> IdleThread]
    /\ requests = <<>>
    /\ nreq = 0
    /\ ncalls = 0
    /\ response = NoResponse
    /\ returned = <<>>
    /\ sysfs \in SysfsChoices
    /\ call = NoCall

\* find_usb_modem_path(vendor_product) is called and returns.
CallFindUsbModemPath ==
    /\ call = NoCall
    /\ \E vp \in VendorProducts :
         call' = [op |-> "find_usb_modem_path", vendor_product |-> vp,
                  path |-> find_usb_modem_path(vp, sysfs)]
    /\ UNCHANGED <<rotator, sysfs>>

\* Line 270, 347: the path the modem functions get, when lsusb named a modem.
PathFor(lsusb, vp) ==
    IF lsusb = "found" THEN find_usb_modem_path(vp, sysfs) ELSE NoPath

\* disconnect_modem() is called and returns.
CallDisconnectModem ==
    /\ call = NoCall
    /\ \E lsusb \in LsusbOutcomes, vp \in VendorProducts, rc \in ToolOutcomes :
         call' = [op |-> "disconnect_modem", lsusb |-> lsusb, rc |-> rc,
                  path |-> PathFor(lsusb, vp),
                  res |-> DisconnectModem(lsusb, PathFor(lsusb, vp) # NoPath, rc)]
    /\ UNCHANGED <<rotator, sysfs>>

\* connect_modem() is called and returns.
CallConnectModem ==
    /\ call = NoCall
    /\ \E lsusb \in LsusbOutcomes, vp \in VendorProducts, rc \in ToolOutcomes :
         call' = [op |-> "connect_modem", lsusb |-> lsusb, rc |-> rc,
                  path |-> PathFor(lsusb, vp),
                  res |-> ConnectModem(lsusb, PathFor(lsusb, vp) # NoPath, rc)]
    /\ UNCHANGED <<rotator, sysfs>>

UsbNext == CallFindUsbModemPath \/ CallDisconnectModem \/ CallConnectModem

UsbSpec == UsbInit /\ [][UsbNext]_vars

\* ================================================================ claims
\* Thread t is at the `return` of rotate_connection(), about to leave the lock.
AtReturn(t) == th[t].pc = "ret"

\* Thread t has executed line 434 and has not built its return value yet.
Counted(t) ==
    \/ th[t].pc = "r_final"
    \/ th[t].pc \in {"gcs", "gcs2"} /\ th[t].ret = "r_final"

\* Thread t is in the verification loop: in the sleep or the poll of an iteration.
InPoll(t) ==
    \/ th[t].pc \in {"pollsleep", "r_poll"}
    \/ th[t].pc \in {"gcs", "gcs2"} /\ th[t].ret = "r_poll"

\* C1: under every interleaving of the callers, rotation_count never decreases,
\* grows by one at a time, and always equals the number of calls that returned
\* success:true plus the cycles that have counted and not returned yet (so a
\* failed cycle adds 0 and a successful one exactly 1).
C1_CountMatchesSuccesses ==
    /\ [](rotation_count =
            Len(returned) + Cardinality({t \in Threads : Counted(t)}))
    /\ [][rotation_count' \in {rotation_count, rotation_count + 1}]_vars

\* A successful cycle returns while the other thread's rotate call is waiting.
C1_Witness ==
    \E t, u \in Threads :
        /\ AtReturn(t) /\ th[t].result.success
        /\ rotation_count = 1 /\ Len(returned) = 1
        /\ th[u].pc = "acquire"

\* C2: at most one thread is in a rotation cycle, and it holds the lock; a
\* caller that finds the lock taken stays waiting (it is not turned away) and
\* enters its own cycle only in a step that finds the lock free.
C2_MutualExclusion ==
    /\ [](\A t, u \in Threads :
            /\ InCycle(t) => lock = t
            /\ InCycle(t) /\ InCycle(u) => t = u)
    /\ [][\A t \in Threads :
            th[t].pc = "acquire" =>
              /\ th'[t].pc \in {"acquire", "gcs"}
              /\ th'[t].pc = "gcs" => lock = None /\ lock' = t]_vars

\* One thread is between disconnect and connect while the other waits.
C2_Witness ==
    \E t, u \in Threads :
        t # u /\ th[t].pc = "settle" /\ lock = t /\ th[u].pc = "acquire"

\* C3: a GET /status that is next in line while a rotation cycle is running
\* can be handled at once, without the rotation having to finish.
C3_StatusNotBlocked ==
    (/\ requests # <<>>
     /\ Head(requests) = [method |-> "GET", path |-> "/status"]
     /\ \E t \in Threads : InCycle(t))
    => ENABLED do_GET

\* C4: when disconnect_modem() returned False, the call returns success:false
\* with the error "Failed to disconnect modem" and the snapshot taken at the
\* start of the cycle, connect_modem() was not called, no poll was made, and
\* rotation_count and last_rotation are what they were when the cycle began.
C4_DisconnectFailure ==
    \A t \in Threads :
        AtReturn(t) /\ th[t].dres = "False" =>
            /\ th[t].result = Failure("Failed to disconnect modem",
                                      th[t].initial_status)
            /\ th[t].initial_status # NoStatus
            /\ ~IsError(th[t].initial_status) =>
                 /\ th[t].initial_status.rotation_count = th[t].c0
                 /\ th[t].initial_status.last_rotation = th[t].ts0
            /\ th[t].ncon = 0 /\ th[t].polls = 0
            /\ rotation_count = th[t].c0 /\ last_rotation = th[t].ts0

\* A disconnect fails after an earlier cycle has succeeded.
C4_Witness ==
    \E t \in Threads :
        /\ AtReturn(t) /\ th[t].dres = "False" /\ th[t].c0 = 1
        /\ ~IsError(th[t].initial_status)

\* C5: when disconnect_modem() returned True and connect_modem() False, the
\* call returns success:false, no verification poll was made, and
\* rotation_count and last_rotation are what they were when the cycle began.
C5_ConnectFailure ==
    \A t \in Threads :
        AtReturn(t) /\ th[t].dres = "True" /\ th[t].cres = "False" =>
            /\ ~th[t].result.success
            /\ th[t].result.error = "Failed to reconnect modem"
            /\ th[t].polls = 0
            /\ rotation_count = th[t].c0 /\ last_rotation = th[t].ts0

\* A connect fails after an earlier cycle has succeeded.
C5_Witness ==
    \E t \in Threads :
        /\ AtReturn(t) /\ th[t].dres = "True" /\ th[t].cres = "False"
        /\ th[t].c0 = 1

\* The pairs (last_rotation, rotation_count) the object has held between
\* cycles: the initial one, those of the returned cycles, the current one.
HeldPairs ==
    {<<None, 0>>, <<last_rotation, rotation_count>>}
        \cup {<<returned[i].time, returned[i].total>> : i \in DOMAIN returned}

\* C6: every snapshot get_connection_status() returns to a thread shows a
\* last_rotation and a rotation_count that belong together.
C6_SnapshotNotTorn ==
    \A t \in Threads :
        th[t].pc = "api_status" /\ ~IsError(th[t].rv) =>
            <<th[t].rv.last_rotation, th[t].rv.rotation_count>> \in HeldPairs

\* C7: a poll iteration begins only while no poll has seen the internet and
\* less than reconnect_timeout has passed since the loop started; the loop has
\* made at most reconnect_timeout polls (each sleeps one second first); and it
\* is left either by the poll that saw the internet or with the timeout over.
C7_PollTerminates ==
    \A t \in Threads :
        /\ InPoll(t) =>
             /\ ~th[t].seen /\ ~th[t].expired
             /\ th[t].iter_at - th[t].start_time < CONFIG.reconnect_timeout
        /\ th[t].polls * PollInterval <= Max(CONFIG.reconnect_timeout, 0)
        /\ th[t].pc = "upd1" =>
             /\ th[t].seen # th[t].expired
             /\ th[t].seen => InternetConnected(th[t].status)
             /\ th[t].expired =>
                  /\ now - th[t].start_time >= CONFIG.reconnect_timeout
                  /\ ~InternetConnected(th[t].status)

\* The loop ends by timeout after eight unsuccessful polls.
C7_Witness ==
    \E t \in Threads :
        th[t].pc = "upd1" /\ th[t].expired /\ th[t].polls = 8

\* C8: when disconnect and connect both succeeded and the loop ended by
\* timeout without a poll that saw the internet, the call returns success:true
\* and rotation_count is one more than when the cycle began.
C8_TimeoutStillSuccess ==
    \A t \in Threads :
        AtReturn(t) /\ th[t].dres = "True" /\ th[t].cres = "True"
                    /\ th[t].expired /\ ~th[t].seen =>
            /\ th[t].result.success
            /\ rotation_count = th[t].c0 + 1
            /\ th[t].result.total_rotations = th[t].c0 + 1

\* A cycle whose polls all failed returns.
C8_Witness ==
    \E t \in Threads :
        /\ AtReturn(t) /\ th[t].result.success
        /\ th[t].expired /\ ~th[t].seen /\ th[t].polls > 1

\* C9 as stated: final_status.internet_connected is true exactly when the loop
\* was left by a poll that saw the internet, false when it was left by timeout.
C9_FinalStatusIsLoopOutcome ==
    \A t \in Threads :
        AtReturn(t) /\ th[t].result.success
                    /\ ~IsError(th[t].result.final_status) =>
            th[t].result.final_status.internet_connected = th[t].seen

\* C9 as amended: final_status is the snapshot of one more probe, made after
\* the loop and the tracking update: its internet_connected is the outcome of
\* that probe's ping, its rotation fields are the updated ones.
C9_FinalStatusIsFreshProbe ==
    \A t \in Threads :
        AtReturn(t) /\ th[t].result.success =>
            LET final == th[t].result.final_status IN
            /\ final # NoStatus
            /\ ~IsError(final) =>
                 /\ final.internet_connected = th[t].reached
                 /\ final.rotation_count = th[t].result.total_rotations
                 /\ final.last_rotation = th[t].result.rotation_time

\* A poll saw the internet, the probe for final_status did not.
C9_Witness ==
    \E t \in Threads :
        /\ AtReturn(t) /\ th[t].result.success /\ th[t].seen
        /\ ~IsError(th[t].result.final_status)
        /\ ~th[t].result.final_status.internet_connected

\* C10: when a call returns success:true, last_rotation is a time between the
\* start of its cycle and its return, and rotation_time is that stored value.
C10_TimestampWithinCycle ==
    \A t \in Threads :
        AtReturn(t) /\ th[t].result.success =>
            /\ last_rotation # None
            /\ th[t].t0 <= last_rotation /\ last_rotation <= th[t].tret
            /\ th[t].tret = now
            /\ th[t].result.rotation_time = last_rotation

\* A second successful cycle, started after the clock has moved.
C10_Witness ==
    \E t \in Threads :
        /\ AtReturn(t) /\ th[t].result.success
        /\ th[t].t0 > 0 /\ th[t].t0 < last_rotation /\ th[t].c0 = 1

\* C11: a thread that is in no call does not hold the lock; the step that
\* leaves a cycle, whatever it returns, frees the lock and puts the thread
\* back in no call; every cycle that has begun is left, and every rotate call
\* that waits for the lock enters its cycle.
C11_EveryExitReleases ==
    /\ [](\A t \in Threads : lock = t => InCycle(t))
    /\ [][\A t \in Threads :
            AtReturn(t) /\ ~AtReturn(t)' => th'[t].pc = "idle" /\ lock' = None]_vars
    /\ \A t \in Callers :
         /\ InCycle(t) ~> (th[t].pc = "idle" /\ lock # t)
         /\ th[t].pc = "acquire" ~> InCycle(t)

\* A rotate call waits for the lock while the cycle that holds it returns a
\* failure.
C11_Witness ==
    \E t, u \in Callers :
        /\ AtReturn(t) /\ ~th[t].result.success
        /\ th[u].pc = "acquire"

\* disconnect_modem() or connect_modem() has been called on its own.
Actuated == call.op \in {"disconnect_modem", "connect_modem"}

C13_RfkillBeforeFalse ==
    Actuated /\ ~call.res.ok =>
        \E i \in DOMAIN call.res.tried :
            call.res.tried[i] \in {"rfkill block", "rfkill unblock"}

\* C14: with lsusb missing (the call raises) disconnect_modem() and
\* connect_modem() go on to rfkill and return what they return when lsusb
\* runs and names no modem, rfkill behaving the same.
C14_MissingToolAsFailure ==
    Actuated /\ call.lsusb = "raise" =>
        /\ call.res.ok =
             (IF call.op = "disconnect_modem"
              THEN DisconnectModem("nomodem", FALSE, call.rc).ok
              ELSE ConnectModem("nomodem", FALSE, call.rc).ok)
        /\ Len(call.res.tried) > 1

\* C15: whatever the tools and the sysfs files do, disconnect_modem() and
\* connect_modem() return a boolean and find_usb_modem_path() returns a path
\* or None: no exception leaves them.
C15_NeverRaise ==
    /\ Actuated => ~call.res.raised /\ call.res.ok \in BOOLEAN
    /\ call.op = "find_usb_modem_path" =>
         call.path \in {NoPath} \cup DeviceNames \cup {ParentPath(d) : d \in DeviceNames}

\* disconnect_modem() returns after find in find_usb_modem_path() and then
\* rfkill could not be run.
C15_Witness ==
    /\ call.op = "disconnect_modem" /\ call.lsusb = "found"
    /\ sysfs.find = "raise" /\ call.path = NoPath /\ call.rc = "raise"
    /\ ~call.res.ok

\* C16: the response to a POST /rotate, whether its body tells of a rotation
\* or of a failed one, has status 200.
C16_RotateAnswers200 ==
    response.body \in {"rotated", "rotation failed"} => response.code = 200

\* The server has answered a POST /rotate whose cycle failed.
C16_Witness ==
    /\ response = Response(200, "rotation failed")
    /\ th[SRV].pc = "idle" /\ lock = None

\* C17: a step changes rotation_count or last_rotation only when it is the
\* tracking update of a cycle whose disconnect and connect both returned
\* True; the server begins a cycle only for a POST to /rotate; and a cycle
\* that returns a failure leaves both fields as they were when it began.
C17_OnlySuccessfulCycleUpdates ==
    /\ [][(rotation_count' # rotation_count \/ last_rotation' # last_rotation) =>
            \E t \in Threads :
                /\ lock = t /\ th[t].pc \in {"upd1", "upd2"}
                /\ th[t].dres = "True" /\ th[t].cres = "True"]_vars
    /\ [][th[SRV].pc = "idle" /\ th'[SRV].pc = "acquire" =>
            Head(requests) = [method |-> "POST", path |-> "/rotate"]]_vars
    /\ [](\A t \in Threads :
            AtReturn(t) =>
                IF th[t].result.success
                THEN rotation_count = th[t].c0 + 1 /\ last_rotation # th[t].ts0
                ELSE rotation_count = th[t].c0 /\ last_rotation = th[t].ts0)

\* After a successful rotation the server has answered a request that is
\* not a POST /rotate, and the fields are those of that rotation.
C17_Witness ==
    /\ rotation_count = 1 /\ Len(returned) = 1
    /\ last_rotation = returned[1].time
    /\ response.code = 404 /\ th[SRV].pc = "idle"

\* The phase of thread t's rotate_connection() call: "Disconnecting" from the
\* entry into the lock to the return of disconnect_modem(), "Settling" in the
\* sleep that follows, "Connecting" in connect_modem(), "Verifying" in the
\* poll loop, "Leaving" from there to the return (tracking update, last
\* snapshot, building the result), "Idle" outside a cycle.
Phase(t) ==
    IF ~InCycle(t) THEN "Idle"
    ELSE IF th[t].pc = "r_init" \/ (th[t].pc \in {"gcs", "gcs2"} /\ th[t].ret = "r_init")
    THEN "Disconnecting"
    ELSE IF th[t].pc = "settle" THEN "Settling"
    ELSE IF th[t].pc = "connwait" THEN "Connecting"
    ELSE IF InPoll(t) THEN "Verifying"
    ELSE "Leaving"

\* The order of the phases; every phase of a cycle can be the last one.
PhaseSteps ==
    {<<"Idle", "Disconnecting">>, <<"Disconnecting", "Settling">>,
     <<"Settling", "Connecting">>, <<"Connecting", "Verifying">>,
     <<"Disconnecting", "Leaving">>, <<"Settling", "Leaving">>,
     <<"Connecting", "Leaving">>, <<"Verifying", "Leaving">>,
     <<"Leaving", "Idle">>}

\* C18: the phases of a call follow one another in the order Idle,
\* Disconnecting, Settling, Connecting, Verifying, Idle; connect_modem() has
\* begun only if disconnect_modem() returned True and at least the settle
\* delay (modem_reset_delay when aggressive_rotation is set, else
\* disconnect_delay) after it returned; a poll has been made only if
\* connect_modem() returned True.
C18_PhaseOrder ==
    /\ [][\A t \in Threads :
            Phase(t)' # Phase(t) => <<Phase(t), Phase(t)'>> \in PhaseSteps]_vars
    /\ [](\A t \in Threads :
            /\ Phase(t) \in {"Settling", "Connecting", "Verifying"} =>
                 th[t].dres = "True"
            /\ th[t].ncon > 0 =>
                 /\ th[t].dres = "True"
                 /\ th[t].tcon - th[t].tdis >=
                      (IF CONFIG.aggressive_rotation THEN CONFIG.modem_reset_delay
                       ELSE CONFIG.disconnect_delay)
                 /\ th[t].tcon >= th[t].tdis
            /\ Phase(t) \in {"Connecting", "Verifying"} \/ th[t].polls > 0 =>
                 th[t].cres = "True")

\* An aggressive rotation is in its poll loop: connect_modem() began two
\* seconds (modem_reset_delay) after disconnect_modem() returned.
C18_Witness ==
    \E t \in Threads :
        /\ CONFIG.aggressive_rotation /\ CONFIG.modem_reset_delay # CONFIG.disconnect_delay
        /\ Phase(t) = "Verifying" /\ th[t].polls > 0
        /\ th[t].tcon = th[t].tdis + CONFIG.modem_reset_delay

\* C19: in one rotate_connection() call disconnect_modem() has been called at
\* most once, and once when the call returns; connect_modem() at most once;
\* and each of them has run the USB write at most once and rfkill at most
\* once (one actuation command in all, in a call of either).
C19_NoRetries ==
    \A t \in Threads :
        /\ th[t].ndis <= 1 /\ th[t].ncon <= 1
        /\ AtReturn(t) => th[t].ndis = 1
        /\ th[t].dact.usb <= 1 /\ th[t].dact.rfkill <= 1
        /\ th[t].cact.usb <= 1 /\ th[t].cact.rfkill <= 1
        /\ th[t].dact.usb + th[t].dact.rfkill <= th[t].ndis
        /\ th[t].cact.usb + th[t].cact.rfkill <= th[t].ncon

\* A cycle returns a failure after the USB write of connect_modem() failed.
C19_Witness ==
    \E t \in Threads :
        /\ AtReturn(t) /\ th[t].cres = "False"
        /\ th[t].ndis = 1 /\ th[t].ncon = 1
        /\ th[t].dact.rfkill = 1 /\ th[t].cact.usb = 1

\* C20: when a cycle returns and disconnect_modem() and connect_modem() both
\* returned True, connect_modem() has used the mechanism disconnect_modem()
\* used.
C20_ConnectMirrorsDisconnect ==
    \A t \in Threads :
        AtReturn(t) /\ th[t].dres = "True" /\ th[t].cres = "True" =>
            th[t].con = th[t].dis

\* C21: a path find_usb_modem_path() returns is that of a device whose
\* idVendor and idProduct are the ones asked for and whose own directory
\* has an `authorized` file.
C21_PathIsAuthorizedModem ==
    call.op = "find_usb_modem_path" /\ call.path # NoPath =>
        call.path \in DeviceNames /\ sysfs.dev[call.path] = "modem"

\* C22: whenever no thread holds the lock, last_rotation is None exactly
\* when rotation_count is 0.
C22_UnsetIffZero ==
    lock = None => (last_rotation = None <=> rotation_count = 0)

\* Both calls have returned, one of them after a successful cycle, and the
\* lock is free.
C22_Witness ==
    /\ lock = None /\ \A t \in Threads : th[t].pc = "idle"
    /\ ncalls >= 2 /\ rotation_count = 1 /\ last_rotation # None

\* C23: the k-th successful rotate_connection() call to return has returned
\* total_rotations = k, whatever the interleaving of the callers; so no two
\* successful calls return the same value.
C23_TotalsInCompletionOrder ==
    /\ \A k \in DOMAIN returned : returned[k].total = k
    /\ \A t \in Threads :
         AtReturn(t) /\ th[t].result.success =>
             th[t].result.total_rotations = Len(returned)

\* The second successful cycle returns, after one that returned 1.
C23_Witness ==
    \E t \in Threads :
        /\ AtReturn(t) /\ th[t].result.success
        /\ Len(returned) = 2 /\ th[t].result.total_rotations = 2
        /\ returned[1].total = 1

====
